---- MODULE Spec2Model ----
(***************************************************************************)
(* Model of scripts/add_new_docs.py: process_and_add_documentation reads   *)
(* three scraped JSON files, chunks every document through                 *)
(* SmartDocumentChunker.chunk_document, and forwards the chunks of each    *)
(* file to ChromaVectorStore.add_documents under ids "<source>_<i>".       *)
(* The chunker and the vector store are collaborators whose code is not    *)
(* part of the script; they are modelled from their documented contracts.  *)
(***************************************************************************)
EXTENDS Integers, Sequences, FiniteSets, TLC

\* ------------------------------------------------------------------ bounds
\* Longest document list a file may hold when file contents are free.
MaxDocs == 2
\* Longest document list a file may hold when the files are pinned for a re-run.
MaxDocsFixed == 1
\* Number of times the script is started in the re-ingestion specification.
MaxRuns == 2

\* ------------------------------------------------------- program constants
\* scraped_files has three entries.
NumFiles == 3
\* Chunk size budget of the chunker (configuration parameter max_chars).
MaxChars == 12

Files == 1..NumFiles

\* --------------------------------------------------------------- documents
\* A document is a JSON object: a function from the keys it carries.  The
\* content is kept as its blank-line-delimited paragraphs.
DocGood == [content |-> <<"# Intro", "Hello world.">>, title |-> "T",
            source |-> "py", url |-> "u1", doc_type |-> "tutorial"]
DocEmptyTitle == [content |-> <<"Views">>, title |-> "",
                  source |-> "py_1", url |-> "u2", scraped_at |-> "2024"]
DocEmptyContent == [content |-> <<"">>, title |-> "E",
                    source |-> "py_1", url |-> "u3"]
DocNoContent == [title |-> "N", source |-> "py_1", url |-> "u2"]
DocNoTitle == [content |-> <<"Models">>, source |-> "py", url |-> "u4"]

Documents == {DocGood, DocEmptyTitle, DocEmptyContent, DocNoContent, DocNoTitle}

DocLists(n) == UNION {[1..k -> Documents] : k \in 0..n}

\* What a path of scraped_files holds: nothing, or a JSON list of documents.
Missing == [kind |-> "missing"]
Listing(ds) == [kind |-> "docs", docs |-> ds]
FileContents(n) == {Missing} \cup {Listing(ds) : ds \in DocLists(n)}
\* A path whose content is not pinned in advance.
Unpinned == [kind |-> "any"]

\* ------------------------------------------------------------------ state
VARIABLES
    disk,                    \* per path: pinned content, or Unpinned
    run,                     \* number of the current run of the script
    pc,                      \* position in process_and_add_documentation
    fidx,                    \* index in scraped_files of the current entry
    documents,               \* documents (last json.load result)
    docfile,                 \* entry of scraped_files that documents came from
    i,                       \* number of documents of the list already handled
    chunks_for_this_source,  \* chunks collected for the current file
    total_chunks_added,      \* total_chunks_added
    calls,                   \* add_documents calls made in this run
    store,                   \* the vector store: id -> stored chunk
    errors,                  \* logger.error records of this run
    warnings,                \* logger.warning records of this run
    stats,                   \* result of get_collection_stats, once called
    prevCalls,               \* add_documents calls of the previous run
    prevStore                \* the vector store when the previous run ended

vars == <<disk, run, pc, fidx, documents, docfile, i, chunks_for_this_source,
          total_chunks_added, calls, store, errors, warnings, stats,
          prevCalls, prevStore>>

\* ---------------------------------------------------------------- helpers
\* dict.get(key, default)
DictGet(d, key, default) == IF key \in DOMAIN d THEN d[key] ELSE default

RECURSIVE Flatten(_)
Flatten(ss) == IF ss = <<>> THEN <<>> ELSE Head(ss) \o Flatten(Tail(ss))

\* ------------------------------------------------------------ the chunker
\* Text Segmenter: the non-empty paragraphs, in order.
Segment(content) == SelectSeq(content, LAMBDA s : s # "")

\* Chunk Assembler: greedy packing of consecutive segments under MaxChars; a
\* segment that exactly fills the budget stays in the current chunk, and an
\* oversized segment becomes a chunk of its own.  overlap_chars is 0.
RECURSIVE Pack(_, _, _)
Pack(segs, buf, out) ==
    IF segs = <<>>
    THEN IF buf = "" THEN out ELSE Append(out, buf)
    ELSE IF buf = ""
         THEN Pack(Tail(segs), Head(segs), out)
         ELSE IF Len(buf) + Len(Head(segs)) <= MaxChars
              THEN Pack(Tail(segs), buf \o Head(segs), out)
              ELSE Pack(Tail(segs), Head(segs), Append(out, buf))

Assemble(segments) == Pack(segments, "", <<>>)

\* Metadata Propagator: the stable identifier of a chunk.
StableId(source, url, k) == source \o "::" \o url \o "::" \o ToString(k)

\* Metadata Propagator: the metadata of chunk k of n.
Annotate(metadata, k, n) ==
    [title |-> metadata.title, source |-> metadata.source,
     url |-> metadata.url, doc_type |-> metadata.doc_type,
     scraped_at |-> metadata.scraped_at,
     chunk_index |-> k, total_chunks |-> n,
     id |-> StableId(metadata.source, metadata.url, k)]

\* chunker.chunk_document(content=..., metadata=...)
ChunkDocument(content, metadata) ==
    LET cs == Assemble(Segment(content))
    IN  [k \in 1..Len(cs) |->
            [content |-> cs[k], metadata |-> Annotate(metadata, k - 1, Len(cs))]]

\* ------------------------------------------------------- the vector store
\* add_documents is an upsert: a later entry under an id replaces the earlier.
Upsert(st, texts, metadatas, ids) ==
    LET new == {ids[k] : k \in 1..Len(ids)}
        last(d) == CHOOSE k \in 1..Len(ids) :
                       /\ ids[k] = d
                       /\ \A l \in (k + 1)..Len(ids) : ids[l] # d
    IN  [d \in (DOMAIN st) \cup new |->
            IF d \in new
            THEN [text |-> texts[last(d)], metadata |-> metadatas[last(d)]]
            ELSE st[d]]

\* get_collection_stats()
CollectionStats(st) ==
    LET srcs == {st[d].metadata.source : d \in DOMAIN st}
    IN  [total_chunks |-> Cardinality(DOMAIN st),
         sources |-> [s \in srcs |->
                        Cardinality({d \in DOMAIN st : st[d].metadata.source = s})]]

\* ------------------------------------------------------- the coordinator
\* The keys the call of chunk_document reads with doc[...] (lines 51-55).
RequiredKeys == {"content", "title", "source", "url"}

\* The metadata argument built at lines 52-58.
DocMetadata(doc) ==
    [title |-> doc["title"], source |-> doc["source"], url |-> doc["url"],
     doc_type |-> DictGet(doc, "doc_type", "general"),
     scraped_at |-> DictGet(doc, "scraped_at", "")]

\* Evaluating the arguments of chunk_document raises KeyError.
ArgsRaise(doc) == ~(RequiredKeys \subseteq DOMAIN doc)

\* Formatting the error message reads doc['title'] again (line 67).
HandlerRaises(doc) == "title" \notin DOMAIN doc

\* Extend as an assignment: the chunks collected so far are dropped.
ExtendAssign(chunks, new) == new

\* Extend that puts the new chunks in front of the collected ones.
ExtendPrepend(chunks, new) == new \o chunks

\* chunks_for_this_source.extend(chunks)
Extend(chunks, new) == chunks \o new

\* An id numbered from the current size of the store instead of from 0.
FormatIdFromStoreSize(source, n) ==
    source \o "_" \o ToString(n + Cardinality(DOMAIN store))

\* f"{chunk['metadata']['source']}_{i}"
FormatId(source, n) == source \o "_" \o ToString(n)

\* Lines 75-77: the three arguments of add_documents.
Texts(chunks) == [k \in 1..Len(chunks) |-> chunks[k].content]

\* The metadata list taken in reverse order.
MetadatasReversed(chunks) ==
    [k \in 1..Len(chunks) |-> chunks[Len(chunks) + 1 - k].metadata]

Metadatas(chunks) == [k \in 1..Len(chunks) |-> chunks[k].metadata]

Ids(chunks) ==
    [k \in 1..Len(chunks) |-> FormatId(chunks[k].metadata.source, k - 1)]

\* The emptiness test left out.
ShouldAddAlways(chunks) == TRUE

\* if chunks_for_this_source:
ShouldAdd(chunks) == chunks # <<>>

\* What the path of entry f may hold when it is opened.
Readable(f) == IF disk[f] = Unpinned THEN FileContents(MaxDocs) ELSE {disk[f]}

NoStats == <<>>

\* ------------------------------------------------------------------- Init
Locals ==
    /\ pc = "loop"
    /\ fidx = 0
    /\ documents = <<>>
    /\ docfile = 0
    /\ i = 0
    /\ chunks_for_this_source = <<>>
    /\ total_chunks_added = 0
    /\ calls = <<>>
    /\ errors = <<>>
    /\ warnings = <<>>
    /\ stats = NoStats

Init ==
    /\ disk = [f \in Files |-> Unpinned]
    /\ run = 1
    /\ Locals
    /\ store = <<>>
    /\ prevCalls = <<>>
    /\ prevStore = <<>>

\* The input files are pinned before the first run.
InitFixed ==
    /\ disk \in [Files -> FileContents(MaxDocsFixed)]
    /\ run = 1
    /\ Locals
    /\ store = <<>>
    /\ prevCalls = <<>>
    /\ prevStore = <<>>

\* ---------------------------------------------------------------- actions
\* Lines 29-34: the next entry's file does not exist.
FileNotFound ==
    /\ pc = "loop"
    /\ fidx < NumFiles
    /\ Missing \in Readable(fidx + 1)
    /\ fidx' = fidx + 1
    /\ warnings' = Append(warnings, [what |-> "File not found", file |-> fidx + 1])
    /\ UNCHANGED <<disk, run, pc, documents, docfile, i, chunks_for_this_source,
                   total_chunks_added, calls, store, errors, stats,
                   prevCalls, prevStore>>

\* Lines 29-45: the next entry's file exists and is loaded.
LoadFile ==
    /\ pc = "loop"
    /\ fidx < NumFiles
    /\ \E c \in Readable(fidx + 1) :
          /\ c # Missing
          /\ documents' = c.docs
    /\ fidx' = fidx + 1
    /\ docfile' = fidx + 1
    /\ i' = 0
    /\ chunks_for_this_source' = <<>>
    /\ pc' = "doc"
    /\ UNCHANGED <<disk, run, total_chunks_added, calls, store, errors,
                   warnings, stats, prevCalls, prevStore>>

\* Lines 47-61: one document is chunked and its chunks are collected.
ChunkOk ==
    /\ pc = "doc"
    /\ i < Len(documents)
    /\ LET doc == documents[i + 1]
       IN  /\ ~ArgsRaise(doc)
           /\ chunks_for_this_source' =
                  Extend(chunks_for_this_source,
                         ChunkDocument(doc["content"], DocMetadata(doc)))
    /\ i' = i + 1
    /\ UNCHANGED <<disk, run, pc, fidx, documents, docfile, total_chunks_added,
                   calls, store, errors, warnings, stats, prevCalls, prevStore>>

\* The handler leaving the document loop (break) instead of continuing.
ChunkErrorBreak ==
    /\ pc = "doc"
    /\ i < Len(documents)
    /\ LET doc == documents[i + 1]
       IN  /\ ArgsRaise(doc)
           /\ ~HandlerRaises(doc)
           /\ errors' = Append(errors, [file |-> fidx, index |-> i,
                                        title |-> doc["title"]])
    /\ i' = Len(documents)
    /\ UNCHANGED <<disk, run, pc, fidx, documents, docfile,
                   chunks_for_this_source, total_chunks_added, calls, store,
                   warnings, stats, prevCalls, prevStore>>

\* Lines 66-68: the KeyError is caught, logged, and the loop continues.
ChunkError ==
    /\ pc = "doc"
    /\ i < Len(documents)
    /\ LET doc == documents[i + 1]
       IN  /\ ArgsRaise(doc)
           /\ ~HandlerRaises(doc)
           /\ errors' = Append(errors, [file |-> fidx, index |-> i,
                                        title |-> doc["title"]])
    /\ i' = i + 1
    /\ UNCHANGED <<disk, run, pc, fidx, documents, docfile,
                   chunks_for_this_source, total_chunks_added, calls, store,
                   warnings, stats, prevCalls, prevStore>>

\* Line 67: the handler itself raises KeyError, which leaves the function.
HandlerError ==
    /\ pc = "doc"
    /\ i < Len(documents)
    /\ ArgsRaise(documents[i + 1])
    /\ HandlerRaises(documents[i + 1])
    /\ pc' = "raised"
    /\ UNCHANGED <<disk, run, fidx, documents, docfile, i,
                   chunks_for_this_source, total_chunks_added, calls, store,
                   errors, warnings, stats, prevCalls, prevStore>>

\* Lines 71-87: the chunks of the file go to the vector store in one call.
AddDocuments ==
    /\ pc = "doc"
    /\ i = Len(documents)
    /\ ShouldAdd(chunks_for_this_source)
    /\ LET texts == Texts(chunks_for_this_source)
           metadatas == Metadatas(chunks_for_this_source)
           ids == Ids(chunks_for_this_source)
       IN  /\ calls' = Append(calls, [file |-> fidx, texts |-> texts,
                                      metadatas |-> metadatas, ids |-> ids])
           /\ store' = Upsert(store, texts, metadatas, ids)
    /\ total_chunks_added' = total_chunks_added + Len(chunks_for_this_source)
    /\ pc' = "loop"
    /\ UNCHANGED <<disk, run, fidx, documents, docfile, i,
                   chunks_for_this_source, errors, warnings, stats,
                   prevCalls, prevStore>>

\* Lines 89-90: nothing was collected for the file.
NoChunks ==
    /\ pc = "doc"
    /\ i = Len(documents)
    /\ ~ShouldAdd(chunks_for_this_source)
    /\ warnings' = Append(warnings, [what |-> "No chunks generated", file |-> fidx])
    /\ pc' = "loop"
    /\ UNCHANGED <<disk, run, fidx, documents, docfile, i,
                   chunks_for_this_source, total_chunks_added, calls, store,
                   errors, stats, prevCalls, prevStore>>

\* Lines 92-103: after the last entry the statistics are read and reported.
GetStats ==
    /\ pc = "loop"
    /\ fidx = NumFiles
    /\ stats' = <<CollectionStats(store)>>
    /\ pc' = "done"
    /\ UNCHANGED <<disk, run, fidx, documents, docfile, i,
                   chunks_for_this_source, total_chunks_added, calls, store,
                   errors, warnings, prevCalls, prevStore>>

\* Lines 105-110: the script is started again on the same files and store.
Rerun ==
    /\ pc \in {"done", "raised"}
    /\ run < MaxRuns
    /\ run' = run + 1
    /\ prevCalls' = calls
    /\ prevStore' = store
    /\ pc' = "loop"
    /\ fidx' = 0
    /\ documents' = <<>>
    /\ docfile' = 0
    /\ i' = 0
    /\ chunks_for_this_source' = <<>>
    /\ total_chunks_added' = 0
    /\ calls' = <<>>
    /\ errors' = <<>>
    /\ warnings' = <<>>
    /\ stats' = NoStats
    /\ UNCHANGED <<disk, store>>

Next ==
    \/ FileNotFound
    \/ LoadFile
    \/ ChunkOk
    \/ ChunkError
    \/ HandlerError
    \/ AddDocuments
    \/ NoChunks
    \/ GetStats

NextTwice ==
    \/ Next
    \/ Rerun

\* One run, file contents free.
Spec == Init /\ [][Next]_vars

\* Two runs over pinned files and a persistent store.
SpecTwice == InitFixed /\ [][NextTwice]_vars

\* ------------------------------------------------- vocabulary of the claims
\* The chunks the chunker returns for a document that has every required key.
ChunksOf(doc) == ChunkDocument(doc["content"], DocMetadata(doc))

\* The chunks of the documents of a list that satisfy keep, in list order.
ChunksOfThose(docs, keep(_)) ==
    Flatten([j \in 1..Len(docs) |->
                IF keep(docs[j]) THEN ChunksOf(docs[j]) ELSE <<>>])

HasAllKeys(doc) == RequiredKeys \subseteq DOMAIN doc
HasContent(doc) == "content" \in DOMAIN doc

\* The document loop over the file of the current entry has been left normally.
FileFinished == pc \in {"loop", "done"} /\ fidx > 0 /\ docfile = fidx

CallsFor(f) == SelectSeq(calls, LAMBDA c : c.file = f)
ForwardedTexts(f) ==
    Flatten([n \in 1..Len(CallsFor(f)) |-> CallsFor(f)[n].texts])
ForwardedMetadatas(f) ==
    Flatten([n \in 1..Len(CallsFor(f)) |-> CallsFor(f)[n].metadatas])

ErrorsFor(f, j) ==
    {e \in 1..Len(errors) : errors[e].file = f /\ errors[e].index = j - 1}

\* Every entry of every add_documents call of the run: <<call, position>>.
Entries ==
    UNION {{<<n, k>> : k \in 1..Len(calls[n].ids)} : n \in 1..Len(calls)}
IdAt(e) == calls[e[1]].ids[e[2]]
TextAt(e) == calls[e[1]].texts[e[2]]
MetaAt(e) == calls[e[1]].metadatas[e[2]]

\* A required field that is present but empty.
EmptyTitle(doc) == "title" \in DOMAIN doc /\ doc["title"] = ""
EmptyContent(doc) ==
    "content" \in DOMAIN doc /\ \A k \in 1..Len(doc["content"]) : doc["content"][k] = ""

\* The metadata mt was made from the fields of doc.
FromDoc(mt, doc) ==
    /\ mt.title = doc["title"] /\ mt.source = doc["source"]
    /\ mt.url = doc["url"]

\* ------------------------------------------------------------------ claims
\* C1: a document missing content or title is rejected alone: the run does
\* not raise, every later document of the file is still handled, and the
\* chunks of the well-formed documents of the file are forwarded.
C1_MalformedRejectedPerItem ==
    /\ pc # "raised"
    /\ FileFinished =>
          /\ i = Len(documents)
          /\ ForwardedTexts(fidx) = Texts(ChunksOfThose(documents, HasAllKeys))

\* C2: over one run no id is passed to add_documents for two different
\* chunks, in one call or in the calls of two files.
C2_IdsGloballyUnique ==
    \A e1 \in Entries : \A e2 \in Entries :
        IdAt(e1) = IdAt(e2) =>
            \/ e1 = e2
            \/ (TextAt(e1) = TextAt(e2) /\ MetaAt(e1) = MetaAt(e2))

\* C3: the id of a chunk is a function of its (source, url, chunk_index)
\* only, whatever precedes the chunk in its batch.
C3_IdFunctionOfSourceUrlIndex ==
    \A e1 \in Entries : \A e2 \in Entries :
        (/\ MetaAt(e1).source = MetaAt(e2).source
         /\ MetaAt(e1).url = MetaAt(e2).url
         /\ MetaAt(e1).chunk_index = MetaAt(e2).chunk_index)
            => IdAt(e1) = IdAt(e2)

\* C4: a second run over unchanged files passes the same add_documents
\* arguments as the first, and leaves the upsert store as the first run left it.
C4_ReingestionIdempotent ==
    (run >= 2 /\ pc \in {"done", "raised"}) =>
        /\ calls = prevCalls
        /\ store = prevStore

C4_Witness ==
    /\ run >= 2 /\ pc = "done"
    /\ Len(calls) >= 2
    /\ Cardinality(DOMAIN store) < total_chunks_added

\* C5: when every document of the file carries title, source and url, the
\* texts forwarded are exactly the chunks of the documents that carry
\* content, one error is logged per document lacking content, and the run
\* does not raise.
C5_MissingContentSkipped ==
    (/\ fidx > 0 /\ docfile = fidx
     /\ pc \in {"loop", "done", "raised"}
     /\ \A j \in 1..Len(documents) :
            {"title", "source", "url"} \subseteq DOMAIN documents[j])
    => /\ pc # "raised"
       /\ ForwardedTexts(fidx) = Texts(ChunksOfThose(documents, HasContent))
       /\ \A j \in 1..Len(documents) :
              Cardinality(ErrorsFor(fidx, j)) =
                  IF HasContent(documents[j]) THEN 0 ELSE 1

C5_Witness ==
    /\ FileFinished
    /\ \A j \in 1..Len(documents) :
           {"title", "source", "url"} \subseteq DOMAIN documents[j]
    /\ \E j \in 1..Len(documents) : ~HasContent(documents[j])
    /\ ForwardedTexts(fidx) # <<>>

\* C6: a document with zero chunks contributes nothing to any add_documents
\* argument, add_documents is never called with empty arguments, and a file
\* whose documents all yield zero chunks causes no call.
C6_ZeroChunksNotForwarded ==
    /\ \A n \in 1..Len(calls) :
           Len(calls[n].texts) > 0 /\ Len(calls[n].metadatas) > 0
               /\ Len(calls[n].ids) > 0
    /\ FileFinished =>
          LET metadatas == ForwardedMetadatas(fidx)
              Yields(doc) == HasAllKeys(doc) /\ ChunksOf(doc) # <<>>
              Barren(doc) == HasAllKeys(doc) /\ ChunksOf(doc) = <<>>
          IN  /\ (\A j \in 1..Len(documents) : ~Yields(documents[j]))
                     => CallsFor(fidx) = <<>>
              /\ \A j \in 1..Len(documents) :
                     Barren(documents[j]) =>
                         \A k \in 1..Len(metadatas) :
                             FromDoc(metadatas[k], documents[j]) =>
                                 \E l \in 1..Len(documents) :
                                     /\ Yields(documents[l])
                                     /\ FromDoc(metadatas[k], documents[l])

C6_Witness ==
    /\ FileFinished
    /\ Len(documents) > 0
    /\ \A j \in 1..Len(documents) :
           HasAllKeys(documents[j]) /\ ChunksOf(documents[j]) = <<>>
    /\ CallsFor(fidx) = <<>>
    /\ calls # <<>>

\* C7: a document whose title or content is present but empty is skipped:
\* none of its chunks is forwarded and an error is recorded for it, without
\* the run raising.
C7_EmptyFieldSkipped ==
    FileFinished =>
        \A j \in 1..Len(documents) :
            (EmptyTitle(documents[j]) \/ EmptyContent(documents[j])) =>
                /\ Cardinality(ErrorsFor(fidx, j)) = 1
                /\ HasAllKeys(documents[j]) =>
                       \A k \in 1..Len(ForwardedMetadatas(fidx)) :
                           ~FromDoc(ForwardedMetadatas(fidx)[k], documents[j])

\* C8: in every add_documents call the three arguments have one length,
\* texts[k] and metadatas[k] belong to the same chunk, and ids[k] is built
\* from the source in metadatas[k].
C8_ArgumentsAligned ==
    /\ \A n \in 1..Len(calls) :
           /\ Len(calls[n].texts) = Len(calls[n].metadatas)
           /\ Len(calls[n].ids) = Len(calls[n].texts)
           /\ \A k \in 1..Len(calls[n].ids) :
                  calls[n].ids[k] =
                      calls[n].metadatas[k].source \o "_" \o ToString(k - 1)
    /\ FileFinished =>
          LET produced == ChunksOfThose(documents, HasAllKeys)
              made == CallsFor(fidx)
          IN  \A n \in 1..Len(made) :
                  \A k \in 1..Len(made[n].texts) :
                      \E x \in 1..Len(produced) :
                          /\ produced[x].content = made[n].texts[k]
                          /\ produced[x].metadata = made[n].metadatas[k]

C8_Witness ==
    /\ FileFinished
    /\ Len(CallsFor(fidx)) = 1
    /\ \E k \in 1..Len(CallsFor(fidx)[1].ids) :
       \E l \in 1..Len(CallsFor(fidx)[1].ids) :
           /\ CallsFor(fidx)[1].metadatas[k].source
                  # CallsFor(fidx)[1].metadatas[l].source
           /\ CallsFor(fidx)[1].texts[k] # CallsFor(fidx)[1].texts[l]

\* C9: add_documents is called at most once per entry of scraped_files (the
\* source group), that call carries every chunk of the documents of the file
\* that were chunked, and once get_collection_stats has been called no
\* add_documents call follows.
C9_CallsPerFile ==
    /\ \A f \in Files : Len(CallsFor(f)) <= 1
    /\ FileFinished =>
          LET produced == ChunksOfThose(documents, HasAllKeys)
              texts == ForwardedTexts(fidx)
              metadatas == ForwardedMetadatas(fidx)
          IN  /\ Len(texts) = Len(produced)
              /\ \A x \in 1..Len(produced) :
                     \E k \in 1..Len(texts) :
                         /\ texts[k] = produced[x].content
                         /\ metadatas[k] = produced[x].metadata
    /\ stats # NoStats => (pc = "done" /\ fidx = NumFiles)

C9_OneCallPerSourceGroup ==
    /\ []C9_CallsPerFile
    /\ [][stats # NoStats => calls' = calls]_vars

C9_Witness ==
    /\ pc = "done"
    /\ stats # NoStats
    /\ Len(calls) = NumFiles
    /\ \E n \in 1..Len(calls) : Len(calls[n].texts) >= 3

\* C10: in an add_documents call the chunks of one document are contiguous
\* and in increasing chunk_index, and the groups of the documents follow the
\* order of the documents in the file.
C10_ChunkOrderPreserved ==
    /\ \A n \in 1..Len(calls) :
           \A k \in 1..Len(calls[n].metadatas) :
               LET mt == calls[n].metadatas[k]
               IN  /\ mt.chunk_index > 0 =>
                          /\ k > 1
                          /\ calls[n].metadatas[k - 1].chunk_index = mt.chunk_index - 1
                          /\ calls[n].metadatas[k - 1].url = mt.url
                          /\ calls[n].metadatas[k - 1].source = mt.source
                   /\ mt.chunk_index < mt.total_chunks - 1 =>
                          /\ k < Len(calls[n].metadatas)
                          /\ calls[n].metadatas[k + 1].chunk_index = mt.chunk_index + 1
    /\ FileFinished =>
          LET produced == ChunksOfThose(documents, HasAllKeys)
              made == CallsFor(fidx)
          IN  \A n \in 1..Len(made) :
                  /\ made[n].texts = Texts(produced)
                  /\ made[n].metadatas = Metadatas(produced)

C10_Witness ==
    /\ FileFinished
    /\ Len(CallsFor(fidx)) = 1
    /\ Len(documents) = 2
    /\ documents[1] # documents[2]
    /\ HasAllKeys(documents[1]) /\ HasAllKeys(documents[2])
    /\ Len(ChunksOf(documents[1])) + Len(ChunksOf(documents[2])) >= 3
    /\ Len(CallsFor(fidx)[1].texts) >= 3
====
